---- MODULE Spec2Model ----
(***************************************************************************)
(* Model of the llm-summariser-service job pipeline.                       *)
(*                                                                         *)
(*   app/main.py                  create_document, process_document,       *)
(*                                get_document                             *)
(*   background_tasks/summarizer  _extract_readable_text,                  *)
(*                                _finalize_summary_text,                  *)
(*                                summarize_with_gemma3                    *)
(*                                                                         *)
(* Text is a sequence of one-character strings.  Floats are hundredths     *)
(* (0.25 is 25).  A Redis hash is a function from field names to values;   *)
(* the hash of a key that does not exist is the empty function.            *)
(***************************************************************************)
EXTENDS Integers, Sequences, FiniteSets, TLC

(***************************************************************************)
(* Bounds of the model and constants of the program.                       *)
(***************************************************************************)
MaxJobs == 2

MIN_WORDS == 20
DEFAULT_MAX_CHARS == 1500
DEFAULT_MAX_WORDS == 1500
EXTRACT_MAX_CHARS == 8000

Jobs == 1..MaxJobs
\* One key more than there are jobs: the last one is never allocated.
Uuids == 1..(MaxJobs + 1)

(***************************************************************************)
(* Python str helpers.                                                     *)
(***************************************************************************)
\* Python's None where a text may stand (no text has a multi-letter element)
None == <<"None">>

Whitespace == {" ", "\t", "\n", "\r", "\f"}

Max2(a, b) == IF a >= b THEN a ELSE b

\* s[:n]
Prefix(s, n) == SubSeq(s, 1, IF n < Len(s) THEN n ELSE Len(s))

\* s[n:]
Suffix(s, n) == SubSeq(s, n + 1, Len(s))

SetMin(S) == CHOOSE m \in S : \A n \in S : m <= n

SetMax(S) == CHOOSE m \in S : \A n \in S : m >= n

\* the positions of s that hold no whitespace
Inked(s) == {p \in 1..Len(s) : s[p] \notin Whitespace}

\* str.lstrip()
LStrip(s) ==
    IF Inked(s) = {} THEN <<>> ELSE SubSeq(s, SetMin(Inked(s)), Len(s))

\* str.rstrip()
RStrip(s) ==
    IF Inked(s) = {} THEN <<>> ELSE SubSeq(s, 1, SetMax(Inked(s)))

\* str.strip()
Strip(s) == LStrip(RStrip(s))

\* The first word of s, s not starting with whitespace.
FirstWord(s) ==
    LET W == {p \in 1..Len(s) : s[p] \in Whitespace}
    IN  IF W = {} THEN s ELSE SubSeq(s, 1, SetMin(W) - 1)

\* str.split(): the whitespace-delimited tokens of s
Split(s) ==
    LET B == {p \in Inked(s) : p = 1 \/ s[p - 1] \in Whitespace}
        Nth(k) == CHOOSE p \in B : Cardinality({q \in B : q <= p}) = k
    IN  SubSeq([k \in 1..Cardinality(B) |->
                    FirstWord(Suffix(s, Nth(k) - 1))], 1, Cardinality(B))

\* " ".join(words)
RECURSIVE Join(_)
Join(words) ==
    IF words = <<>> THEN <<>>
    ELSE IF Len(words) = 1 THEN words[1]
    ELSE words[1] \o <<" ">> \o Join(Tail(words))

\* str.rfind(c) for a one-character c: 0-based index of the last c, or -1
RFind(s, c) ==
    LET P == {p \in 1..Len(s) : s[p] = c}
    IN  IF P = {} THEN -1 ELSE SetMax(P) - 1

(***************************************************************************)
(* Regular-expression helpers for _extract_readable_text.  Positions are   *)
(* 1-based; a "match end" operator gives the position of the last          *)
(* character of the match that starts at i, or 0 when there is none.       *)
(***************************************************************************)
UpperLetters ==
    <<"A", "B", "C", "D", "E", "F", "G", "H", "I", "J", "K", "L", "M",
      "N", "O", "P", "Q", "R", "S", "T", "U", "V", "W", "X", "Y", "Z">>

LowerLetters ==
    <<"a", "b", "c", "d", "e", "f", "g", "h", "i", "j", "k", "l", "m",
      "n", "o", "p", "q", "r", "s", "t", "u", "v", "w", "x", "y", "z">>

Digits == {"0", "1", "2", "3", "4", "5", "6", "7", "8", "9"}

\* re.IGNORECASE folds letters
Lower(c) ==
    IF \E k \in 1..26 : UpperLetters[k] = c
    THEN LowerLetters[CHOOSE k \in 1..26 : UpperLetters[k] = c]
    ELSE c

\* \w
IsWordChar(c) ==
    \/ \E k \in 1..26 : LowerLetters[k] = Lower(c)
    \/ c \in Digits
    \/ c = "_"

\* lit occurs in s at position i (letters folded when ci)
StartsWith(s, i, lit, ci) ==
    /\ i >= 1
    /\ i + Len(lit) - 1 <= Len(s)
    /\ \A k \in 1..Len(lit) :
          IF ci THEN Lower(s[i + k - 1]) = lit[k] ELSE s[i + k - 1] = lit[k]

\* position of the first occurrence of lit in s at or after i, or 0
Find(s, i, lit, ci) ==
    LET P == {p \in i..Len(s) : StartsWith(s, p, lit, ci)}
    IN  IF P = {} THEN 0 ELSE SetMin(P)

\* re.sub(pattern, repl, s) from position i on: MatchEnd is the pattern.
\* The text up to the leftmost match is kept, the match is replaced, and
\* the scan goes on behind it.
RECURSIVE ReSub(_, _, _, _)
ReSub(MatchEnd(_, _), repl, s, i) ==
    LET M == {p \in i..Len(s) : MatchEnd(s, p) > 0}
    IN  IF M = {} THEN Suffix(s, i - 1)
        ELSE SubSeq(s, i, SetMin(M) - 1) \o repl
             \o ReSub(MatchEnd, repl, s, MatchEnd(s, SetMin(M)) + 1)

\* <!--.*?-->
CommentEnd(s, i) ==
    IF StartsWith(s, i, <<"<", "!", "-", "-">>, FALSE)
    THEN LET p == Find(s, i + 4, <<"-", "-", ">">>, FALSE)
         IN  IF p = 0 THEN 0 ELSE p + 2
    ELSE 0

\* <tag\b[^>]*>.*?</tag>  with re.IGNORECASE | re.DOTALL
BlockEnd(s, i, tag) ==
    LET open == <<"<">> \o tag
        close == <<"<", "/">> \o tag \o <<">">>
        j == i + Len(open)
    IN  IF /\ StartsWith(s, i, open, TRUE)
           /\ j <= Len(s)
           /\ ~IsWordChar(s[j])
        THEN LET g == Find(s, j, <<">">>, FALSE)
                 c == IF g = 0 THEN 0 ELSE Find(s, g + 1, close, TRUE)
             IN  IF c = 0 THEN 0 ELSE c + Len(close) - 1
        ELSE 0

ScriptEnd(s, i) == BlockEnd(s, i, <<"s", "c", "r", "i", "p", "t">>)

StyleEnd(s, i) == BlockEnd(s, i, <<"s", "t", "y", "l", "e">>)

NoscriptEnd(s, i) == BlockEnd(s, i, <<"n", "o", "s", "c", "r", "i", "p", "t">>)

BlockTags ==
    { <<"p">>, <<"d", "i", "v">>, <<"a", "r", "t", "i", "c", "l", "e">>,
      <<"s", "e", "c", "t", "i", "o", "n">>, <<"h", "e", "a", "d", "e", "r">>,
      <<"f", "o", "o", "t", "e", "r">>, <<"m", "a", "i", "n">>,
      <<"a", "s", "i", "d", "e">>, <<"l", "i">>, <<"u", "l">>, <<"o", "l">>,
      <<"h", "1">>, <<"h", "2">>, <<"h", "3">>, <<"h", "4">>, <<"h", "5">>,
      <<"h", "6">>, <<"b", "r">>, <<"t", "a", "b", "l", "e">>,
      <<"t", "h", "e", "a", "d">>, <<"t", "b", "o", "d", "y">>,
      <<"t", "f", "o", "o", "t">>, <<"t", "r">>, <<"t", "d">>, <<"t", "h">>,
      <<"f", "i", "g", "u", "r", "e">>,
      <<"f", "i", "g", "c", "a", "p", "t", "i", "o", "n">> }

\* the maximal run of word characters of s from position k, letters folded
WordRun(s, k) ==
    LET P == {p \in k..Len(s) : ~IsWordChar(s[p])}
        e == IF P = {} THEN Len(s) ELSE SetMin(P) - 1
    IN  SubSeq([p \in 1..Len(s) |-> Lower(s[p])], k, e)

\* </?(p|div|...)\b[^>]*>  with re.IGNORECASE
BlockTagEnd(s, i) ==
    IF s[i] # "<" THEN 0
    ELSE LET k == IF i + 1 <= Len(s) /\ s[i + 1] = "/" THEN i + 2 ELSE i + 1
             name == WordRun(s, k)
         IN  IF name \in BlockTags
             THEN Find(s, k + Len(name), <<">">>, FALSE)
             ELSE 0

\* <[^>]+>
AnyTagEnd(s, i) ==
    IF s[i] = "<" /\ i + 1 <= Len(s) /\ s[i + 1] # ">"
    THEN Find(s, i + 2, <<">">>, FALSE)
    ELSE 0

HSpace == {" ", "\t", "\r", "\f"}

\* the last position of the run of characters of C that starts at i
RunEnd(s, i, C) ==
    LET P == {p \in (i + 1)..Len(s) : s[p] \notin C}
    IN  IF P = {} THEN Len(s) ELSE SetMin(P) - 1

\* the last newline of s in i..e, or 0
LastNewline(s, i, e) ==
    LET P == {p \in i..e : s[p] = "\n"}
    IN  IF P = {} THEN 0 ELSE SetMax(P)

\* [ \t\r\f\v]+
HSpaceEnd(s, i) ==
    IF s[i] \in HSpace THEN RunEnd(s, i, HSpace) ELSE 0

\* \n\s*\n+ : from a newline to the last newline of the whitespace run
BlankLinesEnd(s, i) ==
    IF s[i] # "\n" THEN 0
    ELSE LastNewline(s, i + 1, RunEnd(s, i, Whitespace))

(***************************************************************************)
(* html.unescape, for the named references amp, lt, gt and quot (with and  *)
(* without the closing semicolon, as in the html5 table).                  *)
(***************************************************************************)
EntityNames ==
    { <<"a", "m", "p">>, <<"l", "t">>, <<"g", "t">>, <<"q", "u", "o", "t">> }

EntityChar(name) ==
    CASE name = <<"a", "m", "p">> -> "&"
      [] name = <<"l", "t">> -> "<"
      [] name = <<"g", "t">> -> ">"
      [] name = <<"q", "u", "o", "t">> -> "\""

\* the name of the html5 entry for ref, or <<>> when the table has none
Html5Name(ref) ==
    IF ref \in EntityNames THEN ref
    ELSE IF /\ ref # <<>>
            /\ ref[Len(ref)] = ";"
            /\ SubSeq(ref, 1, Len(ref) - 1) \in EntityNames
         THEN SubSeq(ref, 1, Len(ref) - 1)
         ELSE <<>>

NotInCharref == {"\t", "\n", "\f", " ", "<", "&", "#", ";"}

\* [^\t\n\f <&#;]{1,32} from position k: the length of the run, n
\* characters of it already taken
CharrefRun(s, k, n) ==
    LET P == {p \in k..Len(s) : s[p] \in NotInCharref}
        run == (IF P = {} THEN Len(s) + 1 ELSE SetMin(P)) - k
    IN  IF n + run > 32 THEN 32 ELSE n + run

\* html._replace_charref for a named reference
ReplaceCharref(ref) ==
    IF Html5Name(ref) # <<>> THEN <<EntityChar(Html5Name(ref))>>
    ELSE LET X == {x \in 2..(Len(ref) - 1) : Html5Name(Prefix(ref, x)) # <<>>}
         IN  IF X # {}
             THEN <<EntityChar(Html5Name(Prefix(ref, SetMax(X))))>>
                  \o Suffix(ref, SetMax(X))
             ELSE <<"&">> \o ref

\* the text from position i on: up to the leftmost reference it is kept,
\* the reference is replaced, and the scan goes on behind it
RECURSIVE UnescapeFrom(_, _)
UnescapeFrom(s, i) ==
    LET R == {p \in i..Len(s) : s[p] = "&" /\ CharrefRun(s, p + 1, 0) > 0}
        r == SetMin(R)
        n == CharrefRun(s, r + 1, 0)
        semi == IF r + n + 1 <= Len(s) /\ s[r + n + 1] = ";" THEN 1 ELSE 0
    IN  IF R = {} THEN Suffix(s, i - 1)
        ELSE SubSeq(s, i, r - 1)
             \o ReplaceCharref(SubSeq(s, r + 1, r + n + semi))
             \o UnescapeFrom(s, r + n + semi + 1)

unescape(s) == UnescapeFrom(s, 1)

(***************************************************************************)
(* background_tasks/summarizer.py                                          *)
(***************************************************************************)
_extract_readable_text(raw_html, max_chars) ==
    LET t1 == ReSub(CommentEnd, <<" ">>, raw_html, 1)
        t2 == ReSub(ScriptEnd, <<" ">>, t1, 1)
        t3 == ReSub(StyleEnd, <<" ">>, t2, 1)
        t4 == ReSub(NoscriptEnd, <<" ">>, t3, 1)
        t5 == ReSub(BlockTagEnd, <<"\n">>, t4, 1)
        t6 == ReSub(AnyTagEnd, <<" ">>, t5, 1)
        t7 == unescape(t6)
        t8 == ReSub(HSpaceEnd, <<" ">>, t7, 1)
        t9 == ReSub(BlankLinesEnd, <<"\n", "\n">>, t8, 1)
        \* the statements run one after another
        text == Strip(<<t1, t2, t3, t4, t5, t6, t7, t8, t9>>[9])
    IN  IF max_chars # 0 /\ Len(text) > max_chars
        THEN Prefix(text, max_chars)
        ELSE text

\* _finalize_summary_text had it looked for "." only: the variant C23 is
\* tried against
_finalize_summary_text_PeriodOnly(text, max_words) ==
    LET stripped == Strip(text)
        words == Split(stripped)
        normalized ==
            IF max_words > 0 /\ Len(words) > max_words
            THEN RStrip(Join(SubSeq(words, 1, max_words)))
            ELSE stripped
        last_end == RFind(normalized, ".")
    IN  IF last_end # -1 THEN Prefix(normalized, last_end + 1) ELSE normalized

\* _finalize_summary_text without its word cap: the variant C24 is tried
\* against
_finalize_summary_text_NoCap(text, max_words) ==
    LET normalized == Strip(text)
        last_period == RFind(normalized, ".")
        last_q == RFind(normalized, "?")
        last_ex == RFind(normalized, "!")
        last_end == Max2(Max2(last_period, last_q), last_ex)
    IN  IF last_end # -1 THEN Prefix(normalized, last_end + 1) ELSE normalized

\* max_words = 0 stands for None
_finalize_summary_text(text, max_words) ==
    LET stripped == Strip(text)
        words == Split(stripped)
        normalized ==
            IF max_words > 0 /\ Len(words) > max_words
            THEN RStrip(Join(SubSeq(words, 1, max_words)))
            ELSE stripped
        last_period == RFind(normalized, ".")
        last_q == RFind(normalized, "?")
        last_ex == RFind(normalized, "!")
        last_end == Max2(Max2(last_period, last_q), last_ex)
    IN  IF last_end # -1 THEN Prefix(normalized, last_end + 1) ELSE normalized

\* "Insufficient article content to summarize."
INSUFFICIENT ==
    <<"I", "n", "s", "u", "f", "f", "i", "c", "i", "e", "n", "t", " ",
      "a", "r", "t", "i", "c", "l", "e", " ",
      "c", "o", "n", "t", "e", "n", "t", " ", "t", "o", " ",
      "s", "u", "m", "m", "a", "r", "i", "z", "e", ".">>

\* the guard had it read `<= 20`: the variant C18 is tried against
SummarizeGuard_OffByOne(text) ==
    LET cleaned == _extract_readable_text(text, EXTRACT_MAX_CHARS)
    IN  IF text = None \/ Strip(text) = <<>> THEN "EMPTY_INPUT"
        ELSE IF cleaned = <<>> \/ Len(Split(cleaned)) <= MIN_WORDS
        THEN "INSUFFICIENT"
        ELSE "REQUEST"

\* summarize_with_gemma3 without its first test: the variant C19 is tried
\* against (_extract_readable_text answers "" for what is not a str)
SummarizeGuard_NoInputTest(text) ==
    LET cleaned == IF text = None
                   THEN <<>>
                   ELSE _extract_readable_text(text, EXTRACT_MAX_CHARS)
    IN  IF cleaned = <<>> \/ Len(Split(cleaned)) < MIN_WORDS
        THEN "INSUFFICIENT"
        ELSE "REQUEST"

\* summarize_with_gemma3 up to the request: what the input text leads to
\* (text = None stands for an input that is not a str)
SummarizeGuard(text) ==
    LET cleaned == _extract_readable_text(text, EXTRACT_MAX_CHARS)
    IN  IF text = None \/ Strip(text) = <<>> THEN "EMPTY_INPUT"
        ELSE IF cleaned = <<>> \/ Len(Split(cleaned)) < MIN_WORDS THEN "INSUFFICIENT"
        ELSE "REQUEST"

(***************************************************************************)
(* The body of the backend's reply is a sequence of lines.  A line is      *)
(*   blank    line.strip() is empty                                        *)
(*   badjson  json.loads raises JSONDecodeError                            *)
(*   text     a JSON object whose "response" is the string `response`      *)
(*   nokey    a JSON object without "response"                             *)
(*   nonstr   a JSON object whose "response" is not a string: += raises    *)
(*   nondict  a JSON number: `"response" in chunk_data` raises TypeError   *)
(***************************************************************************)
LineRaises(line) == line.kind \in {"nonstr", "nondict"}

\* the loop over response.aiter_lines(): the aggregated output
RECURSIVE AggregateLines(_)
AggregateLines(lines) ==
    IF lines = <<>> THEN <<>>
    ELSE (IF Head(lines).kind = "text" THEN Head(lines).response ELSE <<>>)
         \o AggregateLines(Tail(lines))

\* summarize_with_gemma3 had it caught httpx.HTTPError only: what a line
\* raises leaves as it is; the variant C20 is tried against
SummarizeReply_HttpOnly(r, max_chars) ==
    IF ~r.ok \/ r.failure # ""
    THEN [error |-> "OLLAMA_FAILED", summary |-> <<>>]
    ELSE IF \E k \in 1..Len(r.lines) : LineRaises(r.lines[k])
    THEN [error |-> "TypeError", summary |-> <<>>]
    ELSE LET output == Strip(AggregateLines(r.lines))
         IN  IF output = <<>>
             THEN [error |-> "EMPTY_OUTPUT", summary |-> <<>>]
             ELSE [error |-> "",
                   summary |-> _finalize_summary_text(output, DEFAULT_MAX_WORDS)]

\* summarize_with_gemma3 had it tested `if output:` for `if not output:`:
\* the variant C10 is tried against
SummarizeReply_Inverted(r, max_chars) ==
    IF \/ ~r.ok
       \/ r.failure # ""
       \/ \E k \in 1..Len(r.lines) : LineRaises(r.lines[k])
    THEN [error |-> "OLLAMA_FAILED", summary |-> <<>>]
    ELSE LET output == Strip(AggregateLines(r.lines))
         IN  IF output # <<>>
             THEN [error |-> "EMPTY_OUTPUT", summary |-> <<>>]
             ELSE [error |-> "", summary |-> <<>>]

\* summarize_with_gemma3 from the reply on: [error |-> ..] or [summary |-> ..]
SummarizeReply(r, max_chars) ==
    IF \/ ~r.ok
       \/ r.failure # ""
       \/ \E k \in 1..Len(r.lines) : LineRaises(r.lines[k])
    THEN [error |-> "OLLAMA_FAILED", summary |-> <<>>]
    ELSE LET output == Strip(AggregateLines(r.lines))
             cut == IF max_chars # 0 /\ Len(output) > max_chars
                    THEN Prefix(output, max_chars)
                    ELSE output
         IN  IF output = <<>>
             THEN [error |-> "EMPTY_OUTPUT", summary |-> <<>>]
             ELSE [error |-> "",
                   summary |-> _finalize_summary_text(cut, DEFAULT_MAX_WORDS)]

(***************************************************************************)
(* app/main.py: values                                                     *)
(***************************************************************************)
NoHash == [f \in {} |-> ""]

\* hset had it replaced the hash by the mapping: the variant C14 is tried
\* against
HSetFields_Replacing(h, mapping) == mapping

\* redis hset(key, mapping=...): a partial update of the fields of a hash
HSetFields(h, mapping) ==
    [f \in DOMAIN h \cup DOMAIN mapping |->
        IF f \in DOMAIN mapping THEN mapping[f] ELSE h[f]]

HTTP == <<"h", "t", "t", "p", ":", "/", "/">>

HTTPS == <<"h", "t", "t", "p", "s", ":", "/", "/">>

\* what follows the scheme of an http(s) URL, <<>> when u has no such scheme
AfterScheme(u) ==
    IF StartsWith(u, 1, HTTPS, TRUE) THEN Suffix(u, Len(HTTPS))
    ELSE IF StartsWith(u, 1, HTTP, TRUE) THEN Suffix(u, Len(HTTP))
    ELSE <<>>

\* DocumentCreate had it declared `URL: str`: the variant C17 is tried
\* against
IsHttpUrl_AnyText(u) == u # <<>>

\* pydantic HttpUrl accepts u: an http(s) scheme and a host
IsHttpUrl(u) ==
    /\ AfterScheme(u) # <<>>
    /\ AfterScheme(u)[1] \notin {"/", "?", "#", ":", "@"}
    /\ \A k \in 1..Len(u) : u[k] \notin Whitespace

\* str(HttpUrl(u)): a URL without a path gets the path "/"
StrHttpUrl(u) ==
    IF Find(AfterScheme(u), 1, <<"/">>, FALSE) = 0 THEN u \o <<"/">> ELSE u

\* float(progress_raw) in hundredths, -1 when float() raises ValueError
ParseFloat(raw) ==
    CASE raw = "0.0" -> 0
      [] raw = "0.25" -> 25
      [] raw = "0.50" -> 50
      [] raw = "0.75" -> 75
      [] raw = "1.0" -> 100
      [] raw = "2.0" -> 200
      [] OTHER -> -1

\* the fields create_document stores for a new job
InitialFields(payload) ==
    [status |-> "PENDING",
     name |-> payload.name,
     URL |-> StrHttpUrl(payload.URL),
     summary |-> <<>>,
     data_progress |-> "0.0"]

\* the DocumentResponse create_document returns
CreatedResponse(uuid, payload) ==
    [code |-> 202,
     document_uuid |-> uuid,
     status |-> "PENDING",
     name |-> payload.name,
     URL |-> StrHttpUrl(payload.URL),
     summary |-> None,
     data_progress |-> 0]

Progress25 == [data_progress |-> "0.25"]

Progress50 == [data_progress |-> "0.50"]

Progress75 == [data_progress |-> "0.75"]

\* the SUCCESS mapping had it left data_progress out: the variant C6 is
\* tried against
SuccessFields_NoProgress(summary_text) ==
    [status |-> "SUCCESS", summary |-> summary_text]

SuccessFields(summary_text) ==
    [status |-> "SUCCESS", summary |-> summary_text, data_progress |-> "1.0"]

\* the FAILED mapping had it left "summary" out: the variant C4 is tried
\* against
FailedFields_KeepsSummary ==
    [status |-> "FAILED", data_progress |-> "1.0"]

\* the FAILED mapping had it put the progress back to "0.0": the variant C5
\* is tried against
FailedFields_ResetsProgress ==
    [status |-> "FAILED", summary |-> <<>>, data_progress |-> "0.0"]

FailedFields ==
    [status |-> "FAILED", summary |-> <<>>, data_progress |-> "1.0"]

\* get_document without its `if not data` test: the variant C15 is tried
\* against
GetDocumentResponse_NoEmptyTest(document_uuid, data) ==
    IF {"URL", "name", "status"} \subseteq DOMAIN data
    THEN [code |-> 200,
          document_uuid |-> document_uuid,
          status |-> data.status,
          name |-> data.name,
          URL |-> StrHttpUrl(data.URL),
          summary |-> IF data.summary = <<>> THEN None ELSE data.summary,
          data_progress |-> ParseFloat(data.data_progress)]
    ELSE [code |-> 500,
          document_uuid |-> document_uuid,
          detail |-> "Corrupt document record"]

\* get_document had it filled in what the record lacks: the variant C16 is
\* tried against
GetDocumentResponse_Guessing(document_uuid, data) ==
    IF DOMAIN data = {}
    THEN [code |-> 404,
          document_uuid |-> document_uuid,
          detail |-> "Document not found"]
    ELSE [code |-> 200,
          document_uuid |-> document_uuid,
          status |-> IF "status" \in DOMAIN data THEN data.status ELSE "PENDING",
          name |-> IF "name" \in DOMAIN data THEN data.name ELSE "",
          URL |-> IF "URL" \in DOMAIN data THEN data.URL ELSE <<>>,
          summary |-> None,
          data_progress |-> 0]

\* get_document without its `except (TypeError, ValueError)`: what float()
\* raises leaves the handler; the variant C27 is tried against
GetDocumentResponse_NoExcept(document_uuid, data) ==
    LET progress_raw ==
            IF "data_progress" \in DOMAIN data THEN data.data_progress ELSE "0.0"
    IN  IF DOMAIN data = {}
        THEN [code |-> 404,
              document_uuid |-> document_uuid,
              detail |-> "Document not found"]
        ELSE IF ParseFloat(progress_raw) = -1
        THEN [code |-> 500,
              document_uuid |-> document_uuid,
              detail |-> "Internal Server Error"]
        ELSE IF ~({"URL", "name", "status"} \subseteq DOMAIN data)
        THEN [code |-> 500,
              document_uuid |-> document_uuid,
              detail |-> "Corrupt document record"]
        ELSE [code |-> 200,
              document_uuid |-> document_uuid,
              status |-> data.status,
              name |-> data.name,
              URL |-> StrHttpUrl(data.URL),
              summary |-> IF "summary" \in DOMAIN data /\ data.summary # <<>>
                          THEN data.summary
                          ELSE None,
              data_progress |-> ParseFloat(progress_raw)]

\* the URL field create_document stores is str(payload.URL) of a body that
\* DocumentCreate accepted; the HttpUrl test of each, computed once
StoredUrls == {StrHttpUrl(HTTPS \o <<"h">>)}

UrlValidity == [url \in StoredUrls |-> IsHttpUrl(url)]

\* DocumentResponse(...) validates: status one of the three literals, URL
\* an HttpUrl, 0.0 <= data_progress <= 1.0
ValidDocumentResponse(status, url, progress_value) ==
    /\ status \in {"PENDING", "SUCCESS", "FAILED"}
    /\ progress_value \in 0..100
    /\ IF url \in StoredUrls THEN UrlValidity[url] ELSE IsHttpUrl(url)

\* get_document on the hash `data` read for document_uuid; a pydantic
\* ValidationError leaves the handler and FastAPI answers 500
GetDocumentResponse(document_uuid, data) ==
    LET summary_value == IF "summary" \in DOMAIN data THEN data.summary ELSE None
        summary_normalized ==
            IF summary_value \in {None, <<>>} THEN None ELSE summary_value
        progress_raw ==
            IF "data_progress" \in DOMAIN data THEN data.data_progress ELSE "0.0"
        progress_value ==
            IF ParseFloat(progress_raw) = -1 THEN 0 ELSE ParseFloat(progress_raw)
    IN  IF DOMAIN data = {}
        THEN [code |-> 404,
              document_uuid |-> document_uuid,
              detail |-> "Document not found"]
        ELSE IF ~({"URL", "name", "status"} \subseteq DOMAIN data)
        THEN [code |-> 500,
              document_uuid |-> document_uuid,
              detail |-> "Corrupt document record"]
        ELSE IF ~ValidDocumentResponse(data.status, data.URL, progress_value)
        THEN [code |-> 500,
              document_uuid |-> document_uuid,
              detail |-> "Internal Server Error"]
        ELSE [code |-> 200,
              document_uuid |-> document_uuid,
              status |-> data.status,
              name |-> data.name,
              URL |-> StrHttpUrl(data.URL),
              summary |-> summary_normalized,
              data_progress |-> progress_value]

(***************************************************************************)
(* Inputs: what callers submit and what the collaborators answer.          *)
(***************************************************************************)
\* the request bodies: that of the repository's test (a name and a URL
\* without a path), and three that DocumentCreate refuses: the test's
\* "not-a-url", a relative reference, and an empty name
Payloads ==
    { [name |-> "Example Doc", URL |-> HTTPS \o <<"h">>],
      [name |-> "Example Doc",
       URL |-> <<"n", "o", "t", "-", "a", "-", "u", "r", "l">>],
      [name |-> "Example Doc", URL |-> <<"/", "a">>],
      [name |-> "", URL |-> HTTPS \o <<"h">>] }

\* a text of n words, one on a line
Words(n) ==
    SubSeq([k \in 1..(2 * Max2(n, 1)) |-> IF k % 2 = 1 THEN "w" ELSE "\n"],
           1, 2 * Max2(n, 1) - 1)

InP(text) == <<"<", "p", ">">> \o text \o <<"<", "/", "p", ">">>

\* the bodies a fetch can bring: whitespace only, only a script block,
\* one word short of the guard, and enough words
FetchBodies ==
    { <<" ", "\n">>,
      <<"<", "s", "c", "r", "i", "p", "t", ">", "x",
        "<", "/", "s", "c", "r", "i", "p", "t", ">">>,
      InP(Words(MIN_WORDS - 1)),
      InP(Words(MIN_WORDS)) }

\* summarize_with_gemma3's guard on each body a fetch can bring
GuardOf == [body \in FetchBodies |-> SummarizeGuard(body)]

TextLine(t) == [kind |-> "text", response |-> t]

OtherLine(k) == [kind |-> k, response |-> <<>>]

\* a reply of the backend.  failure: "connect" (httpx.ConnectError),
\* "timeout" (httpx.TimeoutException), "status" (raise_for_status on a
\* status that is not 2xx), "stream" (httpx.ReadError while aiter_lines is
\* read, after `lines`), or "" for a body of `lines` read to its end
Reply(failure, lines) ==
    [ok |-> failure \notin {"connect", "timeout", "status"},
     failure |-> failure,
     lines |-> lines]

BackendReplies ==
    { Reply("connect", <<>>),
      Reply("timeout", <<>>),
      Reply("status", <<>>),
      Reply("stream", <<TextLine(<<"a", ".">>)>>),
      Reply("", <<>>),
      Reply("", <<TextLine(<<" ">>), OtherLine("blank")>>),
      Reply("", <<TextLine(<<" ", "A", "b", ".", " ", "c">>)>>),
      Reply("", <<TextLine(<<"a">>), OtherLine("badjson"), OtherLine("nokey"),
                  TextLine(<<"b">>)>>),
      Reply("", <<TextLine(<<".">>)>>),
      Reply("", <<TextLine(<<"a", ".">>), OtherLine("nondict")>>) }

\* a reply as the backend's contract has it: a 2xx answer whose lines all
\* carry text, some of it not whitespace
ReplyKind(r) ==
    IF /\ r.ok
       /\ r.failure = ""
       /\ \A k \in 1..Len(r.lines) : r.lines[k].kind = "text"
       /\ \E k \in 1..Len(r.lines) :
             \E n \in 1..Len(r.lines[k].response) :
                r.lines[k].response[n] \notin Whitespace
    THEN "good"
    ELSE "bad"

\* the texts the summarizer is called with directly: not a str, empty,
\* blank, the fetched bodies, a body whose words beyond the guard's count
\* sit in a script block, and two texts with enough words
SummarizeInputs ==
    FetchBodies \cup
    { None,
      <<>>,
      InP(Words(MIN_WORDS - 1)) \o
         <<"<", "s", "c", "r", "i", "p", "t", ">", "w", " ", "w",
           "<", "/", "s", "c", "r", "i", "p", "t", ">">>,
      Words(MIN_WORDS),
      Words(MIN_WORDS + 1) }

\* summarize_with_gemma3's guard on each of them
InputGuard == [text \in SummarizeInputs |-> SummarizeGuard(text)]

\* the max_chars a caller passes: 0 (no cap), caps that cut, the default
MaxCharsValues == {0, 1, 2, DEFAULT_MAX_CHARS}

\* what the store may hold under a key when get_document reads it: any of
\* the five fields may be missing (the store is shared; get_document tests
\* for it), the status may be none of the three, the progress may not be a
\* number or not within range
AllFields == {"status", "name", "URL", "summary", "data_progress"}

FullHashes ==
    [status : {"PENDING", "SUCCESS", "FAILED", "DONE"},
     name : {"Example Doc"},
     URL : {HTTPS \o <<"h", "/">>},
     summary : {<<>>, <<"s", ".">>},
     data_progress : {"0.50", "1.0", "abc", "2.0"}]

StoredHashes ==
    {[f \in F |-> h[f]] : h \in FullHashes, F \in SUBSET AllFields}

\* a redis command: done; refused (nothing written); or written by the
\* server with the reply lost to the 2 s socket timeout
HsetOutcomes == {"ok", "error", "timeout"}

Applied(outcome) == outcome \in {"ok", "timeout"}

Raises(outcome) == outcome \in {"error", "timeout"}

(***************************************************************************)
(* State.                                                                  *)
(***************************************************************************)
VARIABLES
    store,          \* Redis: document key -> hash
    req,            \* create_document call of each job: where it stands
    task,           \* process_document task of each job: the await it is at
    payload,        \* the validated request body
    document_uuid,  \* the id create_document drew
    created,        \* what create_document returned
    content_text,   \* process_document local
    summary_text,   \* process_document local
    fetch,          \* history: how the fetch of the job went
    backendCalls,   \* history: POSTs made to the backend for the job
    reply,          \* history: what the backend answered
    writeErrors,    \* history: hsets of the job's task that raised
    caught,         \* history: what the except clause of the task caught
    resp,           \* the response to the latest get_document call
    events,         \* history: what each job has done, in order
    client,         \* the Redis client get_redis made for the job's request
    call,           \* a direct call of summarize_with_gemma3 (as the tests make)
    textCall        \* a direct call of _extract_readable_text or of
                    \* _finalize_summary_text (as the tests make)

\* the variables of the service
serviceVars ==
    <<store, req, task, payload, document_uuid, created, content_text,
      summary_text, fetch, backendCalls, reply, writeErrors, caught, resp,
      events, client>>

vars ==
    <<store, req, task, payload, document_uuid, created, content_text,
      summary_text, fetch, backendCalls, reply, writeErrors, caught, resp,
      events, client, call, textCall>>

NoPayload == [name |-> "", URL |-> <<>>]

NoResponse == [code |-> 0, document_uuid |-> 0]

\* no direct call of the summarizer has been made
NoCall ==
    [stage |-> "idle", text |-> <<>>, max_chars |-> 0, posts |-> 0,
     reply |-> <<>>, error |-> "", summary |-> <<>>]

\* no direct call of the two text functions has been made
NoTextCall ==
    [fn |-> "none", stage |-> "idle", doc |-> <<>>, text |-> <<>>,
     limit |-> 0, result |-> <<>>]

\* no request has arrived
NoRequests ==
    /\ req = [j \in Jobs |-> "idle"]
    /\ task = [j \in Jobs |-> "none"]
    /\ payload = [j \in Jobs |-> NoPayload]
    /\ document_uuid = [j \in Jobs |-> 0]
    /\ created = [j \in Jobs |-> NoResponse]
    /\ content_text = [j \in Jobs |-> <<>>]
    /\ summary_text = [j \in Jobs |-> <<>>]
    /\ fetch = [j \in Jobs |-> "none"]
    /\ backendCalls = [j \in Jobs |-> 0]
    /\ reply = [j \in Jobs |-> "none"]
    /\ writeErrors = [j \in Jobs |-> 0]
    /\ caught = [j \in Jobs |-> ""]
    /\ resp = NoResponse
    /\ events = [j \in Jobs |-> <<>>]
    /\ client = [j \in Jobs |-> "none"]
    /\ call = NoCall

Init ==
    /\ store = [u \in Uuids |-> NoHash]
    /\ NoRequests
    /\ textCall = NoTextCall

\* an id generator that repeats itself: the variant C7 is tried against
Uuid4_Repeating == SetMin(Uuids)

\* uuid.uuid4(): an id no earlier call drew
Uuid4 ==
    SetMin({u \in Uuids : \A j \in Jobs : document_uuid[j] # u})

(***************************************************************************)
(* create_document.  Requests are numbered in the order they arrive.       *)
(***************************************************************************)
\* the request passed validation; the handler runs up to `await redis.hset`
CreateDocument(j) ==
    /\ req[j] = "idle"
    /\ j > 1 => req[j - 1] # "idle"
    /\ \E p \in Payloads :
          /\ p.name # ""
          /\ IsHttpUrl(p.URL)
          /\ payload' = [payload EXCEPT ![j] = p]
    /\ document_uuid' = [document_uuid EXCEPT ![j] = Uuid4]
    /\ client' = [client EXCEPT ![j] = "open"]
    /\ req' = [req EXCEPT ![j] = "hset"]
    /\ UNCHANGED <<call, textCall, store, task, created, content_text,
                   summary_text, fetch, backendCalls, reply, writeErrors,
                   caught, resp, events>>

\* the request body fails DocumentCreate's validation: FastAPI answers 422
\* and create_document is not entered
RejectDocument(j) ==
    /\ req[j] = "idle"
    /\ j > 1 => req[j - 1] # "idle"
    /\ \E p \in Payloads :
          /\ ~(p.name # "" /\ IsHttpUrl(p.URL))
          /\ payload' = [payload EXCEPT ![j] = p]
    /\ req' = [req EXCEPT ![j] = "rejected"]
    /\ UNCHANGED <<call, textCall, client, store, task, document_uuid,
                   created, content_text, summary_text, fetch, backendCalls,
                   reply, writeErrors, caught, resp, events>>

\* create_document had it awaited the task (`await process_document()`): the
\* task is at its fetch when the call returns; the variant C8 is tried against
ScheduleAndReturn_Awaiting(j) ==
    /\ task' = [task EXCEPT ![j] = "fetching"]
    /\ req' = [req EXCEPT ![j] = "returned"]
    /\ created' = [created EXCEPT
                      ![j] = CreatedResponse(document_uuid[j], payload[j])]

\* asyncio.create_task followed by return: no await in between
ScheduleAndReturn(j) ==
    /\ task' = [task EXCEPT ![j] = "scheduled"]
    /\ req' = [req EXCEPT ![j] = "returned"]
    /\ created' = [created EXCEPT
                      ![j] = CreatedResponse(document_uuid[j], payload[j])]

\* job j has done evs, in that order
Did(j, evs) == events' = [events EXCEPT ![j] = @ \o evs]

\* the write named w: an event when the server applied it
Landed(o, w) == IF Applied(o) THEN <<w>> ELSE <<>>

\* create_document had it gone on when its hset raised: the variant C29 is
\* tried against
CreateHsetDone_GoingOn(j) ==
    /\ req[j] = "hset"
    /\ \E o \in HsetOutcomes :
          /\ store' = IF Applied(o)
                      THEN [store EXCEPT ![document_uuid[j]] =
                               HSetFields(@, InitialFields(payload[j]))]
                      ELSE store
          /\ Did(j, Landed(o, "create") \o <<"create_task", "return">>)
          /\ ScheduleAndReturn(j)
    /\ UNCHANGED <<call, textCall, client, payload, document_uuid,
                   content_text, summary_text, fetch, backendCalls, reply,
                   writeErrors, caught, resp>>

\* the first hset returns or raises; the handler runs to its end
CreateHsetDone(j) ==
    /\ req[j] = "hset"
    /\ \E o \in HsetOutcomes :
          /\ store' = IF Applied(o)
                      THEN [store EXCEPT ![document_uuid[j]] =
                               HSetFields(@, InitialFields(payload[j]))]
                      ELSE store
          /\ Did(j, Landed(o, "create") \o
                       (IF Raises(o) THEN <<>> ELSE <<"create_task", "return">>))
          /\ IF Raises(o)
             THEN /\ req' = [req EXCEPT ![j] = "error"]
                  /\ UNCHANGED <<task, created>>
             ELSE ScheduleAndReturn(j)
    /\ UNCHANGED <<call, textCall, client, payload, document_uuid,
                   content_text, summary_text, fetch, backendCalls, reply,
                   writeErrors, caught, resp>>

(***************************************************************************)
(* process_document.  task[j] names the await the task is suspended at;    *)
(* each action is the task resuming from it and running to the next one.   *)
(***************************************************************************)
\* except (httpx.HTTPError, SummarizationError, Exception)
Catches(exc) == exc \in {"HTTPError", "SummarizationError", "RedisError"}

\* process_document's locals, which nothing reads once the try block is left
DropLocals(j) ==
    /\ content_text' = [content_text EXCEPT ![j] = <<>>]
    /\ summary_text' = [summary_text EXCEPT ![j] = <<>>]

\* process_document had it started over on an exception: the variant C28 is
\* tried against
Raise_Retrying(j, exc) ==
    /\ task' = [task EXCEPT ![j] = "scheduled"]
    /\ caught' = [caught EXCEPT ![j] = exc]
    /\ DropLocals(j)

\* an exception raised inside the try block: the handler issues its hset
Raise(j, exc) ==
    /\ task' = [task EXCEPT ![j] = IF Catches(exc) THEN "except" ELSE "crashed"]
    /\ caught' = [caught EXCEPT ![j] = IF Catches(exc) THEN exc ELSE @]
    /\ DropLocals(j)

\* process_document had it written under one key for all jobs (the first
\* id): the variant C13 is tried against
TaskHset_OneKey(j, mapping, o) ==
    store' = IF Applied(o)
             THEN [store EXCEPT ![SetMin(Uuids)] = HSetFields(@, mapping)]
             ELSE store

\* the effect on the store of an hset of the task of job j
TaskHset(j, mapping, o) ==
    store' = IF Applied(o)
             THEN [store EXCEPT ![document_uuid[j]] = HSetFields(@, mapping)]
             ELSE store

CountError(j, o) ==
    writeErrors' = [writeErrors EXCEPT ![j] = IF Raises(o) THEN @ + 1 ELSE @]

\* the event loop starts the task: it runs up to `await client.get`
TaskStart(j) ==
    /\ task[j] = "scheduled"
    /\ task' = [task EXCEPT ![j] = "fetching"]
    /\ fetch' = [fetch EXCEPT ![j] = "issued"]
    /\ Did(j, <<"fetch">>)
    /\ UNCHANGED <<call, textCall, client, store, req, payload, document_uuid,
                   created, content_text, summary_text, backendCalls, reply,
                   writeErrors, caught, resp>>

\* client.get or raise_for_status raises (a network error, a timeout, a
\* status that is not 2xx: each an httpx.HTTPError), or the body is there;
\* then `await redis.hset(0.25)`
FetchDone(j) ==
    /\ task[j] = "fetching"
    /\ \/ /\ fetch' = [fetch EXCEPT ![j] = "error"]
          /\ Raise(j, "HTTPError")
       \/ \E body \in FetchBodies :
             /\ fetch' = [fetch EXCEPT ![j] = "ok"]
             /\ content_text' = [content_text EXCEPT ![j] = body]
             /\ task' = [task EXCEPT ![j] = "w25"]
             /\ UNCHANGED <<caught, summary_text>>
    /\ UNCHANGED <<call, textCall, client, store, req, payload, document_uuid,
                   created, backendCalls, reply, writeErrors, resp, events>>

\* hset(0.25) returns or raises; then `await redis.hset(0.50)`
Hset25Done(j) ==
    /\ task[j] = "w25"
    /\ \E o \in HsetOutcomes :
          /\ TaskHset(j, Progress25, o)
          /\ CountError(j, o)
          /\ Did(j, Landed(o, "0.25"))
          /\ IF Raises(o)
             THEN Raise(j, "RedisError")
             ELSE /\ task' = [task EXCEPT ![j] = "w50"]
                  /\ UNCHANGED <<caught, content_text, summary_text>>
    /\ UNCHANGED <<call, textCall, client, req, payload, document_uuid,
                   created, fetch, backendCalls, reply, resp>>

\* process_document had it called _extract_readable_text itself, before the
\* hset of 0.50: the variant C25 is tried against
Hset50Events_SanitizeFirst(guard, o) ==
    IF Raises(o)
    THEN <<"sanitize">> \o Landed(o, "0.50")
    ELSE <<"sanitize", "0.50">> \o
         (CASE guard = "EMPTY_INPUT" -> <<>>
            [] guard = "INSUFFICIENT" -> <<"summary">>
            [] guard = "REQUEST" -> <<"post">>)

\* what the task does from the hset of 0.50 to its next await: the write,
\* then summarize_with_gemma3, which raises on a blank text before it
\* sanitizes (line 98), else sanitizes (line 103) and returns the sentinel
\* or issues the POST
Hset50Events(guard, o) ==
    IF Raises(o)
    THEN Landed(o, "0.50")
    ELSE <<"0.50">> \o
         (CASE guard = "EMPTY_INPUT" -> <<>>
            [] guard = "INSUFFICIENT" -> <<"sanitize", "summary">>
            [] guard = "REQUEST" -> <<"sanitize", "post">>)

\* hset(0.50) returns or raises; then summarize_with_gemma3 up to its first
\* await (the POST) or, without one, on to `await redis.hset(0.75)`
Hset50Done(j) ==
    /\ task[j] = "w50"
    /\ \E guard \in {GuardOf[content_text[j]]}, o \in HsetOutcomes :
          /\ TaskHset(j, Progress50, o)
          /\ CountError(j, o)
          /\ Did(j, Hset50Events(guard, o))
          /\ IF Raises(o)
             THEN /\ Raise(j, "RedisError")
                  /\ UNCHANGED backendCalls
             ELSE CASE guard = "EMPTY_INPUT" ->
                         /\ Raise(j, "SummarizationError")
                         /\ UNCHANGED backendCalls
                    [] guard = "INSUFFICIENT" ->
                         /\ summary_text' =
                               [summary_text EXCEPT ![j] = INSUFFICIENT]
                         /\ task' = [task EXCEPT ![j] = "w75"]
                         /\ UNCHANGED <<caught, backendCalls, content_text>>
                    [] guard = "REQUEST" ->
                         /\ backendCalls' = [backendCalls EXCEPT ![j] = @ + 1]
                         /\ task' = [task EXCEPT ![j] = "backend"]
                         /\ UNCHANGED <<caught, summary_text, content_text>>
    /\ UNCHANGED <<call, textCall, client, req, payload, document_uuid,
                   created, fetch, reply, resp>>

\* the POST returns or raises and the lines are read; then
\* `await redis.hset(0.75)`
BackendDone(j) ==
    /\ task[j] = "backend"
    /\ \E r \in BackendReplies :
          LET result == SummarizeReply(r, DEFAULT_MAX_CHARS)
          IN  /\ reply' = [reply EXCEPT ![j] = ReplyKind(r)]
              /\ Did(j, IF result.error # "" THEN <<>> ELSE <<"summary">>)
              /\ IF result.error # ""
                 THEN Raise(j, "SummarizationError")
                 ELSE /\ summary_text' =
                            [summary_text EXCEPT ![j] = result.summary]
                      /\ task' = [task EXCEPT ![j] = "w75"]
                      /\ UNCHANGED <<caught, content_text>>
    /\ UNCHANGED <<call, textCall, client, store, req, payload, document_uuid,
                   created, fetch, backendCalls, writeErrors, resp>>

\* hset(0.75) returns or raises; then the `await redis.hset` of the result
Hset75Done(j) ==
    /\ task[j] = "w75"
    /\ \E o \in HsetOutcomes :
          /\ TaskHset(j, Progress75, o)
          /\ CountError(j, o)
          /\ Did(j, Landed(o, "0.75"))
          /\ IF Raises(o)
             THEN Raise(j, "RedisError")
             ELSE /\ task' = [task EXCEPT ![j] = "wfinal"]
                  /\ UNCHANGED <<caught, content_text, summary_text>>
    /\ UNCHANGED <<call, textCall, client, req, payload, document_uuid,
                   created, fetch, backendCalls, reply, resp>>

\* the hset of SUCCESS returns or raises
HsetSuccessDone(j) ==
    /\ task[j] = "wfinal"
    /\ \E o \in HsetOutcomes :
          /\ TaskHset(j, SuccessFields(summary_text[j]), o)
          /\ CountError(j, o)
          /\ Did(j, Landed(o, "SUCCESS"))
          /\ IF Raises(o)
             THEN Raise(j, "RedisError")
             ELSE /\ task' = [task EXCEPT ![j] = "done"]
                  /\ DropLocals(j)
                  /\ UNCHANGED caught
    /\ UNCHANGED <<call, textCall, client, req, payload, document_uuid,
                   created, fetch, backendCalls, reply, resp>>

\* process_document had it started over after a failure: the variant C12 is
\* tried against
HsetFailedDone_Retrying(j) ==
    /\ task[j] = "except"
    /\ \E o \in HsetOutcomes :
          /\ TaskHset(j, FailedFields, o)
          /\ CountError(j, o)
          /\ Did(j, Landed(o, "FAILED"))
          /\ task' = [task EXCEPT ![j] = "scheduled"]
    /\ UNCHANGED <<call, textCall, client, req, payload, document_uuid,
                   created, content_text, summary_text, fetch, backendCalls,
                   reply, caught, resp>>

\* the hset of FAILED in the except clause returns, or raises out of the task
HsetFailedDone(j) ==
    /\ task[j] = "except"
    /\ \E o \in HsetOutcomes :
          /\ TaskHset(j, FailedFields, o)
          /\ CountError(j, o)
          /\ Did(j, Landed(o, "FAILED"))
          /\ task' = [task EXCEPT ![j] = IF Raises(o) THEN "crashed" ELSE "done"]
    /\ UNCHANGED <<call, textCall, client, req, payload, document_uuid,
                   created, content_text, summary_text, fetch, backendCalls,
                   reply, caught, resp>>

(***************************************************************************)
(* get_document: one hgetall, the answer computed from what it read.       *)
(***************************************************************************)
GetDocument(u) ==
    /\ resp' = GetDocumentResponse(u, store[u])
    /\ UNCHANGED <<call, textCall, client, store, req, task, payload,
                   document_uuid, created, content_text, summary_text, fetch,
                   backendCalls, reply, writeErrors, caught, events>>

Next ==
    \/ \E j \in Jobs : CreateDocument(j)
    \/ \E j \in Jobs : RejectDocument(j)
    \/ \E j \in Jobs : CreateHsetDone(j)
    \/ \E j \in Jobs : TaskStart(j)
    \/ \E j \in Jobs : FetchDone(j)
    \/ \E j \in Jobs : Hset25Done(j)
    \/ \E j \in Jobs : Hset50Done(j)
    \/ \E j \in Jobs : BackendDone(j)
    \/ \E j \in Jobs : Hset75Done(j)
    \/ \E j \in Jobs : HsetSuccessDone(j)
    \/ \E j \in Jobs : HsetFailedDone(j)
    \/ \E u \in Uuids : GetDocument(u)

Spec == Init /\ [][Next]_vars

(***************************************************************************)
(* Scheduling: the event loop runs every task that is ready, and every     *)
(* call to a collaborator returns or raises (client.get has timeout=20,    *)
(* the POST timeout=60.0, the redis socket socket_timeout=2.0).  Nothing   *)
(* obliges a client to submit or to poll.                                  *)
(***************************************************************************)
\* one step of job j's request handler or of its background task; a job is
\* one sequential flow, so at most one of these is enabled at a time
JobStep(j) ==
    \/ CreateHsetDone(j)
    \/ TaskStart(j)
    \/ FetchDone(j)
    \/ Hset25Done(j)
    \/ Hset50Done(j)
    \/ BackendDone(j)
    \/ Hset75Done(j)
    \/ HsetSuccessDone(j)
    \/ HsetFailedDone(j)

Fairness == \A j \in Jobs : WF_vars(JobStep(j))

FairSpec == Spec /\ Fairness

(***************************************************************************)
(* get_redis: the code after its yield closes the client when the request  *)
(* is over, whatever the task the request created is doing.  The handle's  *)
(* state is read by no step (an hset may succeed or raise at any time), so *)
(* Spec does without the teardown; LifeSpec is Spec with it.               *)
(***************************************************************************)
Teardown(j) ==
    /\ req[j] \in {"returned", "error"}
    /\ client[j] = "open"
    /\ client' = [client EXCEPT ![j] = "closed"]
    /\ UNCHANGED <<call, textCall, store, req, task, payload, document_uuid,
                   created, content_text, summary_text, fetch, backendCalls,
                   reply, writeErrors, caught, resp, events>>

LifeNext ==
    \/ Next
    \/ \E j \in Jobs : Teardown(j)

LifeSpec == Init /\ [][LifeNext]_vars

(***************************************************************************)
(* get_document on its own: reads of one record, whatever the store holds  *)
(* under its key.                                                          *)
(***************************************************************************)
ReadInit ==
    /\ \E h \in StoredHashes :
          store = [u \in Uuids |-> IF u = SetMin(Uuids) THEN h ELSE NoHash]
    /\ NoRequests
    /\ textCall = NoTextCall

ReadNext == \E u \in Uuids : GetDocument(u)

ReadSpec == ReadInit /\ [][ReadNext]_vars

(***************************************************************************)
(* summarize_with_gemma3 on its own: one direct call, as                   *)
(* tests/test_summarizer.py makes them, up to its POST and from the reply  *)
(* on.                                                                     *)
(***************************************************************************)
\* the call runs up to `await client.post`, or ends before it
SummarizeCall(text, max_chars) ==
    /\ call.stage = "idle"
    /\ \E guard \in {InputGuard[text]} :
          call' = [call EXCEPT
                     !.text = text,
                     !.max_chars = max_chars,
                     !.stage = CASE guard = "EMPTY_INPUT" -> "raised"
                                 [] guard = "INSUFFICIENT" -> "returned"
                                 [] guard = "REQUEST" -> "posting",
                     !.error = IF guard = "EMPTY_INPUT" THEN guard ELSE "",
                     !.summary = IF guard = "INSUFFICIENT"
                                 THEN INSUFFICIENT
                                 ELSE <<>>,
                     !.posts = IF guard = "REQUEST" THEN 1 ELSE 0]
    /\ UNCHANGED <<serviceVars, textCall>>

\* the POST returns or raises, the lines are read, the call ends
SummarizeReturn(r) ==
    /\ call.stage = "posting"
    /\ LET result == SummarizeReply(r, call.max_chars)
       IN  call' = [call EXCEPT
                      !.reply = r,
                      !.stage = IF result.error # "" THEN "raised" ELSE "returned",
                      !.error = result.error,
                      !.summary = result.summary]
    /\ UNCHANGED <<serviceVars, textCall>>

SumNext ==
    \/ \E text \in SummarizeInputs, max_chars \in MaxCharsValues :
          SummarizeCall(text, max_chars)
    \/ \E r \in BackendReplies : SummarizeReturn(r)

SumSpec == Init /\ [][SumNext]_vars

(***************************************************************************)
(* _extract_readable_text on its own.  A document is a sequence of parts:  *)
(* text (its markup and what a reader sees of it), a script, style or      *)
(* noscript element (its start tag, its content, its end tag), or a tag.   *)
(* The content of the elements is written with characters the texts do     *)
(* not use.                                                                *)
(***************************************************************************)
TextPart(markup, visible) ==
    [kind |-> "text", markup |-> markup, visible |-> visible, inner |-> <<>>]

ElementPart(open, inner, close) ==
    [kind |-> "element", markup |-> open \o inner \o close, visible |-> <<>>,
     inner |-> inner]

TagPart(markup) ==
    [kind |-> "tag", markup |-> markup, visible |-> <<>>, inner |-> <<>>]

\* the parts of the repository's test document, cut short: a heading text
\* with an entity, a word, the three elements, an inline and a block tag;
\* and two more script elements: tag names in capitals with an attribute,
\* and an end tag with a space before its ">" (HTML allows both)
HtmlParts ==
    { TextPart(<<"T", " ", "&", "a", "m", "p", ";", " ", "I">>,
               <<"T", " ", "&", " ", "I">>),
      TextPart(<<"M">>, <<"M">>),
      ElementPart(<<"<", "s", "c", "r", "i", "p", "t", ">">>,
                  <<"x", "=", "1">>,
                  <<"<", "/", "s", "c", "r", "i", "p", "t", ">">>),
      ElementPart(<<"<", "s", "t", "y", "l", "e", ">">>,
                  <<".", "x">>,
                  <<"<", "/", "s", "t", "y", "l", "e", ">">>),
      ElementPart(<<"<", "n", "o", "s", "c", "r", "i", "p", "t", ">">>,
                  <<"n", "j">>,
                  <<"<", "/", "n", "o", "s", "c", "r", "i", "p", "t", ">">>),
      ElementPart(<<"<", "S", "C", "R", "I", "P", "T", " ", "a", ">">>,
                  <<"x">>,
                  <<"<", "/", "S", "C", "R", "I", "P", "T", ">">>),
      ElementPart(<<"<", "s", "c", "r", "i", "p", "t", ">">>,
                  <<"x">>,
                  <<"<", "/", "s", "c", "r", "i", "p", "t", " ", ">">>),
      TagPart(<<"<", "b", ">">>),
      TagPart(<<"<", "/", "d", "i", "v", ">">>) }

MaxParts == 3

HtmlDocs == UNION {[1..n -> HtmlParts] : n \in 1..MaxParts}

\* the markup of a document
RECURSIVE Render(_)
Render(doc) ==
    IF doc = <<>> THEN <<>> ELSE Head(doc).markup \o Render(Tail(doc))

ExtractInit ==
    /\ store = [u \in Uuids |-> NoHash]
    /\ NoRequests
    /\ \E doc \in HtmlDocs :
          textCall = [fn |-> "_extract_readable_text", stage |-> "called",
                      doc |-> doc, text |-> Render(doc),
                      limit |-> EXTRACT_MAX_CHARS, result |-> <<>>]

ExtractReturn ==
    /\ textCall.fn = "_extract_readable_text"
    /\ textCall.stage = "called"
    /\ textCall' = [textCall EXCEPT
                      !.stage = "returned",
                      !.result = _extract_readable_text(textCall.text,
                                                        textCall.limit)]
    /\ UNCHANGED <<serviceVars, call>>

ExtractSpec == ExtractInit /\ [][ExtractReturn]_vars

(***************************************************************************)
(* _finalize_summary_text on its own: every text of up to MaxPieces        *)
(* pieces, with no word cap (max_words=None, written 0) or a cap of 1 or   *)
(* 2 words.                                                                *)
(***************************************************************************)
Terminators == {".", "?", "!"}

Pieces == {"a", ".", "?", "!", " "}

MaxPieces == 5

FinalizeInputs == UNION {[1..n -> Pieces] : n \in 0..MaxPieces}

MaxWordsValues == {0, 1, 2}

FinalizeInit ==
    /\ store = [u \in Uuids |-> NoHash]
    /\ NoRequests
    /\ \E text \in FinalizeInputs, max_words \in MaxWordsValues :
          textCall = [fn |-> "_finalize_summary_text", stage |-> "called",
                      doc |-> <<>>, text |-> text,
                      limit |-> max_words, result |-> <<>>]

FinalizeReturn ==
    /\ textCall.fn = "_finalize_summary_text"
    /\ textCall.stage = "called"
    /\ textCall' = [textCall EXCEPT
                      !.stage = "returned",
                      !.result = _finalize_summary_text(textCall.text,
                                                        textCall.limit)]
    /\ UNCHANGED <<serviceVars, call>>

FinalizeSpec == FinalizeInit /\ [][FinalizeReturn]_vars

(***************************************************************************)
(* What the claims speak of.                                               *)
(***************************************************************************)
Terminal == {"SUCCESS", "FAILED"}

\* the stored status of document u, "absent" while there is no record
StatusOf(u) ==
    IF "status" \in DOMAIN store[u] THEN store[u].status ELSE "absent"

\* what a get_document call made now would answer
Poll(u) == GetDocumentResponse(u, store[u])

\* the record of the job of request j, once the request has drawn its id
RecordOf(j) ==
    IF document_uuid[j] \in Uuids THEN store[document_uuid[j]] ELSE NoHash

JobStatus(j) ==
    IF "status" \in DOMAIN RecordOf(j) THEN RecordOf(j).status ELSE "absent"

Submitted(j) == req[j] = "returned"

Ended(j) == task[j] \in {"done", "crashed"}

(***************************************************************************)
(* C1.  The stored status of a job starts PENDING and changes at most      *)
(* once: a status that is SUCCESS or FAILED is never written over, so two  *)
(* polls of one job never report two different terminal statuses.          *)
(***************************************************************************)
C1_StatusChangesOnce ==
    [][\A u \in Uuids :
          /\ StatusOf(u) = "absent" /\ StatusOf(u)' # "absent"
                => StatusOf(u)' = "PENDING"
          /\ StatusOf(u) \in Terminal => StatusOf(u)' = StatusOf(u)
          /\ (/\ resp.code = 200
              /\ resp'.code = 200
              /\ resp'.document_uuid = resp.document_uuid
              /\ resp.status \in Terminal) => resp'.status = resp.status]_vars

(***************************************************************************)
(* C2.  Whatever a stage of process_document raises is caught in it: the   *)
(* task never ends with an exception, and a task that caught one ends      *)
(* with the record FAILED.                                                 *)
(***************************************************************************)
C2_FailuresContained ==
    \A j \in Jobs :
       /\ task[j] # "crashed"
       /\ Ended(j) /\ caught[j] # "" => JobStatus(j) = "FAILED"

(***************************************************************************)
(* C3.  Every job whose create_document call returned has, in the end, a   *)
(* terminal status in the store.                                           *)
(***************************************************************************)
C3_EveryJobTerminates ==
    \A j \in Jobs :
       Submitted(j) ~> (JobStatus(j) \in Terminal)

(***************************************************************************)
(* C4.  In whatever get_document answers, and in what create_document      *)
(* returned, the summary is there (not None, not empty) exactly when the   *)
(* status is SUCCESS.                                                      *)
(***************************************************************************)
SummaryIffSuccess(r) ==
    /\ r.summary # <<>>
    /\ r.summary # None <=> r.status = "SUCCESS"

C4_SummaryIffSuccess ==
    /\ \A u \in Uuids : Poll(u).code = 200 => SummaryIffSuccess(Poll(u))
    /\ resp.code = 200 => SummaryIffSuccess(resp)
    /\ \A j \in Jobs : created[j].code = 202 => SummaryIffSuccess(created[j])

\* a poll answered SUCCESS with a summary, and a job whose SUCCESS was
\* written over by FAILED is polled without one
C4_Witness ==
    /\ resp.code = 200
    /\ resp.status = "SUCCESS"
    /\ Len(resp.summary) = 1
    /\ \E j \in Jobs :
          /\ reply[j] = "good"
          /\ JobStatus(j) = "FAILED"
          /\ Poll(document_uuid[j]).summary = None

(***************************************************************************)
(* C5.  The progress get_document answers for a job never goes down: no    *)
(* step lowers what a poll would answer, and of two successive answers     *)
(* for one job the later is not lower.                                     *)
(***************************************************************************)
C5_ProgressNeverRegresses ==
    [][/\ \A u \in Uuids :
             Poll(u).code = 200 =>
                /\ GetDocumentResponse(u, store'[u]).code = 200
                /\ GetDocumentResponse(u, store'[u]).data_progress
                      >= Poll(u).data_progress
       /\ (/\ resp.code = 200
           /\ resp'.code = 200
           /\ resp'.document_uuid = resp.document_uuid)
             => resp'.data_progress >= resp.data_progress]_vars

\* a poll answered 0.75 and the job has since failed: the next poll of it
\* is the one the claim compares
C5_Witness ==
    /\ resp.code = 200
    /\ resp.data_progress = 75
    /\ Poll(resp.document_uuid).status = "FAILED"
    /\ Poll(resp.document_uuid).data_progress = 100

(***************************************************************************)
(* C6.  The progress of every record, as stored and as get_document        *)
(* answers it, lies in [0.0, 1.0], and is 1.0 whenever the status is       *)
(* SUCCESS or FAILED.                                                      *)
(***************************************************************************)
ProgressInRange(status, progress) ==
    /\ progress \in 0..100
    /\ status \in Terminal => progress = 100

C6_ProgressInRange ==
    /\ \A u \in Uuids :
          /\ store[u] # NoHash =>
                ProgressInRange(store[u].status,
                                ParseFloat(store[u].data_progress))
          /\ Poll(u).code = 200 =>
                ProgressInRange(Poll(u).status, Poll(u).data_progress)
    /\ resp.code = 200 => ProgressInRange(resp.status, resp.data_progress)

\* one job stands at a checkpoint while another has ended SUCCESS
C6_Witness ==
    \E j, k \in Jobs :
       /\ JobStatus(j) = "SUCCESS"
       /\ RecordOf(j).data_progress = "1.0"
       /\ JobStatus(k) = "PENDING"
       /\ RecordOf(k).data_progress = "0.75"

(***************************************************************************)
(* C7.  When create_document returns, it returns a job with an id no       *)
(* other job has and under which no record stood, status PENDING,          *)
(* progress 0.0, no summary, the submitted name and the submitted URL in   *)
(* HttpUrl's normal form (with the path "/" when it has none); the record  *)
(* under that id holds PENDING, "0.0" and an empty summary.                *)
(***************************************************************************)
Returns(j) == req[j] = "hset" /\ req'[j] = "returned"

FreshId(j) ==
    /\ \A k \in Jobs \ {j} : document_uuid[k] # document_uuid[j]
    /\ store[document_uuid[j]] = NoHash

PendingJob(j) ==
    /\ created'[j].code = 202
    /\ created'[j].document_uuid = document_uuid[j]
    /\ created'[j].status = "PENDING"
    /\ created'[j].data_progress = 0
    /\ created'[j].summary = None
    /\ created'[j].name = payload[j].name
    /\ store'[document_uuid[j]].status = "PENDING"
    /\ store'[document_uuid[j]].data_progress = "0.0"
    /\ store'[document_uuid[j]].summary = <<>>

HasPath(u) == \E k \in 1..Len(AfterScheme(u)) : AfterScheme(u)[k] = "/"

C8_SubmitNonBlocking ==
    [][\A j \in Jobs :
          /\ (req[j] # "returned" /\ req'[j] = "returned") =>
                /\ task[j] = "none"
                /\ task'[j] = "scheduled"
                /\ fetch'[j] = "none"
                /\ backendCalls'[j] = 0
          /\ (task[j] # "none" /\ task'[j] # task[j]) =>
                req[j] = "returned"]_vars

\* the call has returned and the task has not started
C8_Witness ==
    \E j \in Jobs :
       /\ req[j] = "returned"
       /\ created[j].code = 202
       /\ task[j] = "scheduled"
       /\ fetch[j] = "none"

(***************************************************************************)
(* C9.  A job whose fetch failed has no checkpoint written and no backend  *)
(* call made, and its task ends with the record FAILED, progress 1.0 and   *)
(* an empty summary.                                                       *)
(***************************************************************************)
C9_FetchFailureGoesToFailed ==
    \A j \in Jobs :
       fetch[j] = "error" =>
          /\ backendCalls[j] = 0
          /\ RecordOf(j).data_progress \in {"0.0", "1.0"}
          /\ RecordOf(j).data_progress = "0.0" => JobStatus(j) = "PENDING"
          /\ Ended(j) =>
                /\ JobStatus(j) = "FAILED"
                /\ RecordOf(j).data_progress = "1.0"
                /\ RecordOf(j).summary = <<>>

(***************************************************************************)
(* C10.  A job whose fetch succeeded, whose backend reply is well formed   *)
(* and not empty and whose writes all succeed is never FAILED and in the   *)
(* end is SUCCESS with progress 1.0 and a summary that is not empty.       *)
(***************************************************************************)
GoodRun(j) == fetch[j] = "ok" /\ reply[j] = "good" /\ writeErrors[j] = 0

Succeeded(j) ==
    /\ JobStatus(j) = "SUCCESS"
    /\ RecordOf(j).data_progress = "1.0"
    /\ RecordOf(j).summary # <<>>
    /\ Poll(document_uuid[j]).summary = RecordOf(j).summary

C10_GoodRunSucceeds ==
    /\ [](\A j \in Jobs : GoodRun(j) => JobStatus(j) # "FAILED")
    /\ \A j \in Jobs : GoodRun(j) ~> (Succeeded(j) \/ writeErrors[j] > 0)

\* a good run has ended
C10_Witness ==
    \E j \in Jobs :
       /\ GoodRun(j)
       /\ backendCalls[j] = 1
       /\ task[j] = "done"
       /\ Succeeded(j)

(***************************************************************************)
(* C11.  A job whose summarization failed (the input guard refused the     *)
(* body, the body left too little text once sanitized, or the backend      *)
(* call failed) and whose task has returned is FAILED with progress 1.0    *)
(* and an empty summary, never SUCCESS.                                    *)
(***************************************************************************)
\* summarize_with_gemma3 came back without a request to the backend
NoRequestMade(j) ==
    /\ fetch[j] = "ok"
    /\ backendCalls[j] = 0
    /\ writeErrors[j] = 0
    /\ task[j] \in {"w75", "wfinal", "except", "done"}

FailedRecord(j) ==
    /\ JobStatus(j) = "FAILED"
    /\ RecordOf(j).data_progress = "1.0"
    /\ RecordOf(j).summary = <<>>

C11_SummarizationFailureFails ==
    \A j \in Jobs :
       /\ NoRequestMade(j) => JobStatus(j) # "SUCCESS"
       /\ (task[j] = "done" /\ (NoRequestMade(j) \/ caught[j] = "SummarizationError"))
             => FailedRecord(j)

(***************************************************************************)
(* C12.  A job has a task exactly when its create_document call has        *)
(* returned; the task goes through its stages in order and never again     *)
(* (it is not restarted); and two tasks never have the same record to      *)
(* write to.                                                               *)
(***************************************************************************)
TaskRank(at) ==
    CASE at = "none" -> 0
      [] at = "scheduled" -> 1
      [] at = "fetching" -> 2
      [] at = "w25" -> 3
      [] at = "w50" -> 4
      [] at = "backend" -> 5
      [] at = "w75" -> 6
      [] at = "wfinal" -> 7
      [] at = "except" -> 8
      [] at \in {"done", "crashed"} -> 9

C12_OnePipelinePerJob ==
    [][\A j \in Jobs :
          /\ req'[j] = "returned" <=> task'[j] # "none"
          /\ task'[j] # task[j] => TaskRank(task'[j]) > TaskRank(task[j])
          /\ \A k \in Jobs \ {j} :
                (task'[j] # "none" /\ task'[k] # "none")
                   => document_uuid'[j] # document_uuid'[k]]_vars

\* two tasks are under way at once, and one has failed and ended
C12_Witness ==
    /\ task[1] = "done"
    /\ caught[1] # ""
    /\ task[MaxJobs] \in {"w25", "w50", "backend", "w75", "wfinal"}

(***************************************************************************)
(* C13.  A step of job j (of its create_document call or of its task)      *)
(* leaves every record but j's own as it was: the records under other      *)
(* ids, and so the record of every other job.                              *)
(***************************************************************************)
Steps(j) == task'[j] # task[j] \/ req'[j] # req[j]

C13_WritesOwnRecordOnly ==
    [][\A j \in Jobs :
          Steps(j) =>
             /\ \A u \in Uuids \ {document_uuid'[j]} : store'[u] = store[u]
             /\ \A k \in Jobs \ {j} :
                   document_uuid[k] \in Uuids =>
                      /\ document_uuid[k] # document_uuid'[j]
                      /\ store'[document_uuid[k]] = store[document_uuid[k]]]_vars

\* two jobs under way, each record at another checkpoint
C13_Witness ==
    /\ task[1] = "wfinal"
    /\ RecordOf(1).data_progress = "0.75"
    /\ task[MaxJobs] = "w50"
    /\ RecordOf(MaxJobs).data_progress = "0.25"

(***************************************************************************)
(* C14.  Once a record is created, a write keeps its fields and changes    *)
(* only data_progress (a checkpoint write) or only status, summary and     *)
(* data_progress (a terminal write): name and URL stay as created, and     *)
(* get_document keeps answering them.                                      *)
(***************************************************************************)
Changed(u) ==
    {f \in DOMAIN store[u] \cup DOMAIN store'[u] :
        \/ f \notin DOMAIN store[u]
        \/ f \notin DOMAIN store'[u]
        \/ store'[u][f] # store[u][f]}

AtCheckpoint(u) ==
    \E j \in Jobs :
       document_uuid[j] = u /\ task[j] \in {"w25", "w50", "w75"}

CreatedUnder(u) ==
    \E j \in Jobs : document_uuid[j] = u /\ req[j] \in {"returned", "error"}

C15_UnseenIdNotFound ==
    \A u \in Uuids :
       ~CreatedUnder(u) =>
          /\ store[u] = NoHash
          /\ Poll(u).code = 404
          /\ resp.document_uuid = u => resp.code = 404

\* both jobs have their records and a poll of the third id was answered
C15_Witness ==
    /\ resp.code = 404
    /\ ~CreatedUnder(resp.document_uuid)
    /\ \A j \in Jobs : task[j] # "none" /\ RecordOf(j) # NoHash

(***************************************************************************)
(* C17.  A submission whose URL is not an absolute URL (a scheme, "://",   *)
(* a host) is answered 422: no id is drawn, nothing is returned, the       *)
(* store is left as it was and no task is scheduled, then or later.        *)
(***************************************************************************)
AbsoluteUrl(u) ==
    \E k \in 2..(Len(u) - 3) :
       /\ SubSeq(u, k, k + 2) = <<":", "/", "/">>
       /\ \A n \in 1..(k - 1) : IsWordChar(u[n])
       /\ u[k + 3] \notin {"/", "?", "#"}

BadUrlPayloads == {p \in Payloads : ~AbsoluteUrl(p.URL)}

C17_BadUrlRejected ==
    [][\A j \in Jobs :
          (req'[j] # "idle" /\ payload'[j] \in BadUrlPayloads) =>
             /\ req'[j] = "rejected"
             /\ req[j] = "idle" => store' = store /\ task' = task
             /\ task'[j] = "none"
             /\ document_uuid'[j] = 0
             /\ created'[j] = NoResponse]_vars

\* a request was refused and the next one took the first id
C17_Witness ==
    /\ req[1] = "rejected"
    /\ payload[1].name # ""
    /\ req[MaxJobs] = "returned"
    /\ document_uuid[MaxJobs] = 1

(***************************************************************************)
(* C16.  get_document on a hash that has a field but lacks status, name    *)
(* or URL answers 500 "Corrupt document record": not 404, not a job.  On   *)
(* a hash that has the three it never answers that; on no hash, 404.       *)
(***************************************************************************)
Mandatory == {"status", "name", "URL"}

CorruptRecord(r) == r.code = 500 /\ r.detail = "Corrupt document record"

C16_CorruptRecordReported ==
    /\ \A u \in Uuids :
          /\ (store[u] # NoHash /\ ~(Mandatory \subseteq DOMAIN store[u]))
                => CorruptRecord(Poll(u))
          /\ Mandatory \subseteq DOMAIN store[u] => ~CorruptRecord(Poll(u))
          /\ store[u] = NoHash => Poll(u).code = 404
    /\ resp.code # 0 => resp = Poll(resp.document_uuid)

\* the read of a hash with a status and no name was answered
C16_Witness ==
    /\ CorruptRecord(resp)
    /\ "status" \in DOMAIN store[resp.document_uuid]
    /\ "name" \notin DOMAIN store[resp.document_uuid]

(***************************************************************************)
(* C18.  A call of summarize_with_gemma3 whose input passed the first      *)
(* test (a str, not blank): when the sanitized text has fewer than 20      *)
(* words the call returns the sentinel and has made no POST; when it has   *)
(* 20 or more the call makes one POST, and no second one.                  *)
(***************************************************************************)
PassesInputTest(text) == text # None /\ Strip(text) # <<>>

SanitizedWords ==
    [text \in SummarizeInputs \ {None} |->
        Len(Split(_extract_readable_text(text, EXTRACT_MAX_CHARS)))]

C18_WordCountGuard ==
    (call.stage # "idle" /\ PassesInputTest(call.text)) =>
       IF SanitizedWords[call.text] < 20
       THEN /\ call.stage = "returned"
            /\ call.summary = INSUFFICIENT
            /\ call.posts = 0
       ELSE call.posts = 1

\* a text of 20 words, fewer once sanitized, got the sentinel
C18_Witness ==
    /\ call.stage = "returned"
    /\ call.text # None
    /\ Len(Split(call.text)) >= 20
    /\ call.summary = INSUFFICIENT

(***************************************************************************)
(* C19.  A call of summarize_with_gemma3 with an input that is not a str,  *)
(* is empty or is blank raises SummarizationError EMPTY_INPUT, and no      *)
(* POST is made.                                                           *)
(***************************************************************************)
C19_EmptyInputRaises ==
    (call.stage # "idle" /\ ~PassesInputTest(call.text)) =>
       /\ call.stage = "raised"
       /\ call.error = "EMPTY_INPUT"
       /\ call.posts = 0

\* a call with what is not a str has raised
C19_Witness ==
    /\ call.stage = "raised"
    /\ call.text = None
    /\ call.max_chars = DEFAULT_MAX_CHARS

(***************************************************************************)
(* C20.  When the POST fails (connection, timeout, status) or the stream   *)
(* breaks, the call raises SummarizationError OLLAMA_FAILED; when the      *)
(* lines are read and the text gathered is blank it raises EMPTY_OUTPUT;   *)
(* whatever a call raises is one of the three SummarizationErrors.         *)
(***************************************************************************)
Replied == call.posts = 1 /\ call.stage \in {"raised", "returned"}

C20_BackendErrorsMapped ==
    /\ call.stage = "raised" =>
          call.error \in {"EMPTY_INPUT", "OLLAMA_FAILED", "EMPTY_OUTPUT"}
    /\ (Replied /\ call.reply.failure # "") =>
          call.stage = "raised" /\ call.error = "OLLAMA_FAILED"
    /\ (/\ Replied
        /\ call.reply.failure = ""
        /\ \A k \in 1..Len(call.reply.lines) :
              call.reply.lines[k].kind \in {"text", "blank", "badjson", "nokey"}
        /\ \A k \in 1..Len(call.reply.lines) :
              \A n \in 1..Len(call.reply.lines[k].response) :
                 call.reply.lines[k].response[n] \in Whitespace) =>
          call.stage = "raised" /\ call.error = "EMPTY_OUTPUT"

\* the stream broke after a line was read
C20_Witness ==
    /\ Replied
    /\ call.reply.failure = "stream"
    /\ Len(call.reply.lines) = 1
    /\ call.error = "OLLAMA_FAILED"

(***************************************************************************)
(* C21.  Whatever summarize_with_gemma3 returns for a positive max_chars   *)
(* is at most max_chars characters long.                                   *)
(***************************************************************************)
C21_OutputWithinMaxChars ==
    (call.stage = "returned" /\ call.max_chars > 0) =>
       Len(call.summary) <= call.max_chars

(***************************************************************************)
(* C26.  When the reply was read to its end and the lines that carry text  *)
(* carry some that is not blank, the call returns, and returns what        *)
(* truncation and finalization make of the concatenation of those texts:   *)
(* no other line aborts the call or changes it.                            *)
(***************************************************************************)
C26_MalformedChunksSkipped ==
    (/\ Replied
     /\ call.reply.failure = ""
     /\ Strip(AggregateLines(call.reply.lines)) # <<>>) =>
       /\ call.stage = "returned"
       /\ LET output == Strip(AggregateLines(call.reply.lines))
              cut == IF call.max_chars > 0
                     THEN Prefix(output, call.max_chars)
                     ELSE output
          IN  call.summary = _finalize_summary_text(cut, DEFAULT_MAX_WORDS)

(***************************************************************************)
(* C27.  get_document on a record that has status, name and URL, with one  *)
(* of the three statuses, and whose data_progress is missing or is not     *)
(* what float() accepts: the answer is the job with data_progress 0.0 and  *)
(* the stored status.                                                      *)
(***************************************************************************)
BadProgress(data) ==
    \/ "data_progress" \notin DOMAIN data
    \/ ParseFloat(data.data_progress) = -1

C27_BadProgressKeepsStatus ==
    /\ \A u \in Uuids :
          (/\ Mandatory \subseteq DOMAIN store[u]
           /\ store[u].status \in {"PENDING", "SUCCESS", "FAILED"}
           /\ BadProgress(store[u])) =>
             /\ Poll(u).code = 200
             /\ Poll(u).data_progress = 0
             /\ Poll(u).status = store[u].status
    /\ resp.code # 0 => resp = Poll(resp.document_uuid)

\* the read of a FAILED record whose data_progress is "abc" was answered
C27_Witness ==
    /\ resp.code = 200
    /\ resp.status = "FAILED"
    /\ resp.data_progress = 0
    /\ "data_progress" \in DOMAIN store[resp.document_uuid]
    /\ store[resp.document_uuid].data_progress = "abc"

(***************************************************************************)
(* C22.  What _extract_readable_text returns for a document holds no       *)
(* character of the content of its script, style and noscript elements,    *)
(* and holds the visible form of each of its texts.                        *)
(***************************************************************************)
InnerChars(doc) ==
    UNION {{doc[n].inner[k] : k \in 1..Len(doc[n].inner)} : n \in 1..Len(doc)}

Contains(s, sub) == sub = <<>> \/ Find(s, 1, sub, FALSE) # 0

C22_BlocksRemovedTextKept ==
    (textCall.fn = "_extract_readable_text" /\ textCall.stage = "returned") =>
       /\ \A k \in 1..Len(textCall.result) :
             textCall.result[k] \notin InnerChars(textCall.doc)
       /\ \A n \in 1..Len(textCall.doc) :
             textCall.doc[n].kind = "text" =>
                Contains(textCall.result, textCall.doc[n].visible)

(***************************************************************************)
(* C23.  _finalize_summary_text returns the word-capped text up to and     *)
(* with its last ".", "?" or "!", and so a text that ends with one of      *)
(* them; when the word-capped text has none, it returns it whole.          *)
(***************************************************************************)
\* the text after the word cap: the first max_words words when there are
\* more, the trimmed text otherwise
WordCapped(text, max_words) ==
    IF max_words > 0 /\ Len(Split(text)) > max_words
    THEN Join(SubSeq(Split(text), 1, max_words))
    ELSE Strip(text)

TerminatorPositions(s) == {k \in 1..Len(s) : s[k] \in Terminators}

Finalized ==
    textCall.fn = "_finalize_summary_text" /\ textCall.stage = "returned"

C23_CutAfterLastTerminator ==
    Finalized =>
       LET capped == WordCapped(textCall.text, textCall.limit)
           result == textCall.result
       IN  IF TerminatorPositions(capped) # {}
           THEN /\ result = Prefix(capped, SetMax(TerminatorPositions(capped)))
                /\ result[Len(result)] \in Terminators
           ELSE result = capped

\* a text with a "." and later a "?" lost what followed the "?"
C23_Witness ==
    /\ Finalized
    /\ textCall.limit = 0
    /\ Len(textCall.result) = 3
    /\ textCall.result[1] = "."
    /\ textCall.result[3] = "?"
    /\ Len(Strip(textCall.text)) > 3

(***************************************************************************)
(* C24.  With a positive max_words, what _finalize_summary_text returns    *)
(* has at most max_words words; they are the first words of the input,     *)
(* the last of them possibly cut after a terminator.                       *)
(***************************************************************************)
C24_WordCapRespected ==
    (Finalized /\ textCall.limit > 0) =>
       LET given == Split(textCall.text)
           kept == Split(textCall.result)
       IN  /\ Len(kept) <= textCall.limit
           /\ Len(kept) <= Len(given)
           /\ \A k \in 1..Len(kept) :
                 IF k < Len(kept)
                 THEN kept[k] = given[k]
                 ELSE kept[k] = Prefix(given[k], Len(kept[k]))

\* three words under a cap of two: two words came back
C24_Witness ==
    /\ Finalized
    /\ textCall.limit = 2
    /\ Len(Split(textCall.text)) = 3
    /\ Len(Split(textCall.result)) = 2

(***************************************************************************)
(* C25.  A job whose record says SUCCESS has done, in this order: the      *)
(* first write, create_task, return, the fetch, the write of 0.25, the     *)
(* write of 0.50, the sanitizing, the POST (none when the sentinel is the  *)
(* summary), the summary, the write of 0.75, the write of SUCCESS.  The    *)
(* sanitizing comes after the write of 0.50, and the write of 0.75 after   *)
(* the summary.                                                            *)
(***************************************************************************)
SuccessWithPost ==
    <<"create", "create_task", "return", "fetch", "0.25", "0.50",
      "sanitize", "post", "summary", "0.75", "SUCCESS">>

SuccessWithSentinel ==
    <<"create", "create_task", "return", "fetch", "0.25", "0.50",
      "sanitize", "summary", "0.75", "SUCCESS">>

\* the rank of the first e among evs, 0 when there is none
Pos(evs, e) ==
    IF \E k \in 1..Len(evs) : evs[k] = e
    THEN SetMin({k \in 1..Len(evs) : evs[k] = e})
    ELSE 0

Before(evs, a, b) == Pos(evs, a) # 0 /\ Pos(evs, a) < Pos(evs, b)

C25_SuccessPathOrder ==
    \A j \in Jobs :
       /\ JobStatus(j) = "SUCCESS" =>
             events[j] \in {SuccessWithPost, SuccessWithSentinel}
       /\ Pos(events[j], "sanitize") # 0 => Before(events[j], "0.50", "sanitize")
       /\ Pos(events[j], "post") # 0 => Before(events[j], "sanitize", "post")
       /\ Pos(events[j], "0.75") # 0 => Before(events[j], "summary", "0.75")

\* a job that called the backend has its SUCCESS record
C25_Witness ==
    \E j \in Jobs :
       /\ JobStatus(j) = "SUCCESS"
       /\ backendCalls[j] = 1
       /\ events[j] = SuccessWithPost

\* the order with the sanitizing between the writes of 0.25 and of 0.50,
\* for the jobs that called the backend
C25_SanitizeBetweenCheckpoints ==
    \A j \in Jobs :
       (JobStatus(j) = "SUCCESS" /\ backendCalls[j] = 1) =>
          events[j] =
             <<"create", "create_task", "return", "fetch", "0.25",
               "sanitize", "0.50", "post", "summary", "0.75", "SUCCESS">>

(***************************************************************************)
(* C28.  A job fetches at most once and POSTs to the backend at most       *)
(* once; once its record says FAILED, no step fetches, POSTs or writes     *)
(* for it.                                                                 *)
(***************************************************************************)
Count(evs, e) == Cardinality({k \in 1..Len(evs) : evs[k] = e})

C28_NoRetry ==
    [][\A j \in Jobs :
          /\ Count(events'[j], "fetch") <= 1
          /\ Count(events'[j], "post") <= 1
          /\ backendCalls'[j] <= 1
          /\ JobStatus(j) = "FAILED" =>
                /\ events'[j] = events[j]
                /\ task'[j] = task[j]
                /\ fetch'[j] = fetch[j]
                /\ backendCalls'[j] = backendCalls[j]
                /\ writeErrors'[j] = writeErrors[j]
                /\ store'[document_uuid[j]] = store[document_uuid[j]]]_vars

\* a job failed after its POST, and the other job is on its way
C28_Witness ==
    \E j, k \in Jobs :
       /\ JobStatus(j) = "FAILED"
       /\ backendCalls[j] = 1
       /\ task[j] = "done"
       /\ task[k] = "w25"

(***************************************************************************)
(* C29.  The first write of a job is its first event: it lands before      *)
(* create_task and before create_document returns, and no second one       *)
(* follows; once create_document has returned, get_document for the id     *)
(* never answers 404.                                                      *)
(***************************************************************************)
C29_InitialWriteFirst ==
    \A j \in Jobs :
       /\ \A k \in 1..Len(events[j]) : events[j][k] = "create" => k = 1
       /\ task[j] # "none" =>
             Before(events[j], "create", "create_task")
       /\ req[j] = "returned" =>
             /\ SubSeq(events[j], 1, 3) = <<"create", "create_task", "return">>
             /\ Poll(document_uuid[j]).code # 404

\* both checkpoints of a returned job have landed and a poll finds it
C29_Witness ==
    \E j \in Jobs :
       /\ req[j] = "returned"
       /\ Pos(events[j], "0.50") # 0
       /\ Poll(document_uuid[j]).code = 200
       /\ Poll(document_uuid[j]).status = "PENDING"

(***************************************************************************)
(* C30.  While the task of a job awaits an hset, the Redis client of the   *)
(* job's request is open.                                                  *)
(***************************************************************************)
C30_ClientOpenAtWrites ==
    \A j \in Jobs :
       task[j] \in {"w25", "w50", "w75", "wfinal", "except"} =>
          client[j] = "open"

====
